---- MODULE Spec2Model ----
(***************************************************************************)
(* A model of src/src/value_screener.py: the margin-of-safety calculator,  *)
(* the stock scorer, the screener loop with its sort, and main's report.   *)
(*                                                                         *)
(* Numbers.  The program computes with Python floats.  The model uses      *)
(* fixed point: ratios and growth rates of FinancialMetrics are integers   *)
(* in hundredths (15 is 1500, 0.05 is 5); the line items and the market    *)
(* cap are whole units; graham_number and price are hundredths; a margin   *)
(* of safety is in ten-thousandths (0.30 is 3000, 1.0 is 10000).           *)
(* The root and the two quotients are cut to their unit, so a margin of    *)
(* safety may lie up to two ten-thousandths below the float's value; the   *)
(* answers used below keep every compared value away from its threshold    *)
(* by more than that, or exactly on it.                                    *)
(* An optional value is a sequence: <<>> is None, <<v>> is the value v.    *)
(***************************************************************************)
EXTENDS Integers, Sequences, FiniteSets, TLC

VARIABLES
    tickers,        \* main: the parsed ticker list handed to screen_stocks
    i,              \* screen_stocks: how many entries the for loop has taken
    ticker,         \* score_stock's parameter
    pc,             \* the position of the control flow
    metrics,        \* score_stock: get_financial_metrics' list
    line_items,     \* score_stock: search_line_items' list
    market_cap,     \* score_stock / compute_margin_of_safety: optional number
    mos,            \* the value compute_margin_of_safety returned
    result,         \* what score_stock returned (screen_stocks' local)
    results,        \* screen_stocks' list
    main_results,   \* main's `results`: None until screen_stocks returns
    printed,        \* the lines main has printed
    error,          \* the uncaught exception, "" while there is none
    calls,          \* history: the calls issued so far, in order
    missing         \* history: line 46's verdict for each call of score_stock

vars == <<tickers, i, ticker, pc, metrics, line_items, market_cap, mos,
          result, results, main_results, printed, error, calls, missing>>

\* The longest ticker list main hands to screen_stocks.
MaxTickers == 3

None == <<>>

Some(v) == <<v>>

\* Python's truth value of an optional number: None and 0 are false.
Truthy(x) == x # None /\ x[1] # 0

\* What a call does: it returns a value, or raises the exception exc.
Return(v) == [exc |-> "", value |-> v]

Raise(e) == [exc |-> e, value |-> None]

RECURSIVE SqrtSearch(_, _, _)
SqrtSearch(x, lo, hi) ==
    IF lo >= hi THEN lo
    ELSE LET mid == (lo + hi + 1) \div 2
         IN IF mid * mid <= x THEN SqrtSearch(x, mid, hi)
                              ELSE SqrtSearch(x, lo, mid - 1)

\* math.sqrt on a non-negative argument (the integer part of the root; the
\* argument is scaled so that the result is in hundredths).
math_sqrt(x) == SqrtSearch(x, 0, 46340)

\* round-half-even of n/d, the rounding of Python's format specs.
RoundHalfEven(n, d) ==
    LET q == n \div d
        r == n % d
    IN IF 2 * r < d THEN q
       ELSE IF 2 * r > d THEN q + 1
       ELSE IF q % 2 = 0 THEN q ELSE q + 1

\* compute_margin_of_safety without line 25's `if price > 0`.
compute_margin_of_safety_no_price_check(line_item, mc) ==
    LET eps == line_item.earnings_per_share
        bvps == line_item.book_value_per_share
        shares == line_item.outstanding_shares
    IN IF Truthy(eps) /\ Truthy(bvps) /\ Truthy(shares) /\ Truthy(mc)
          /\ mc[1] > 0
       THEN LET radicand == 225000 * eps[1] * bvps[1]
            IN IF radicand < 0
               THEN Raise("ValueError")
               ELSE LET graham_number == math_sqrt(radicand)
                        price == (mc[1] * 100) \div shares[1]
                    IN Return(Some(((graham_number - price) * 10000)
                                       \div price))
       ELSE Return(None)

\* compute_margin_of_safety(line_item, market_cap).  A line item lacking an
\* attribute reads as None (getattr's default).  22.5*eps*bvps is scaled by
\* 10^4 so that its root is graham_number in hundredths.
compute_margin_of_safety(line_item, mc) ==
    LET eps == line_item.earnings_per_share
        bvps == line_item.book_value_per_share
        shares == line_item.outstanding_shares
    IN IF Truthy(eps) /\ Truthy(bvps) /\ Truthy(shares) /\ Truthy(mc)
          /\ mc[1] > 0
       THEN LET radicand == 225000 * eps[1] * bvps[1]
            IN IF radicand < 0
               THEN Raise("ValueError")     \* math.sqrt: math domain error
               ELSE LET graham_number == math_sqrt(radicand)
                        price == (mc[1] * 100) \div shares[1]
                    IN IF price > 0
                       THEN Return(Some(((graham_number - price) * 10000)
                                            \div price))
                       ELSE Return(None)
       ELSE Return(None)

\* One reason string: its kind (the text before the number) and the number
\* as the format spec renders it (.1f: tenths, .2f: hundredths, .0%: percent).
Reason(kind, shown) == [kind |-> kind, shown |-> shown]

\* Add with reasons.insert(0, reason) in place of reasons.append(reason).
AddInFront(st, points, reason) ==
    [score |-> st.score + points, reasons |-> <<reason>> \o st.reasons]

\* `score += points; reasons.append(reason)`.
Add(st, points, reason) ==
    [score |-> st.score + points, reasons |-> Append(st.reasons, reason)]

\* RulePE with `0 < ratio < 15`: a negative P/E is not flagged.
RulePEPositiveOnly(st, fm) ==
    IF Truthy(fm.price_to_earnings_ratio)
       /\ fm.price_to_earnings_ratio[1] > 0
       /\ fm.price_to_earnings_ratio[1] < 1500
    THEN Add(st, 1, Reason("P/E",
                           RoundHalfEven(fm.price_to_earnings_ratio[1], 10)))
    ELSE st

\* RulePE with `ratio is not None` in place of the truth test: 0 is flagged.
RulePEZeroFlagged(st, fm) ==
    IF fm.price_to_earnings_ratio # None
       /\ fm.price_to_earnings_ratio[1] < 1500
    THEN Add(st, 1, Reason("P/E",
                           RoundHalfEven(fm.price_to_earnings_ratio[1], 10)))
    ELSE st

\* Lines 55-57.
RulePE(st, fm) ==
    IF Truthy(fm.price_to_earnings_ratio)
       /\ fm.price_to_earnings_ratio[1] < 1500
    THEN Add(st, 1, Reason("P/E",
                           RoundHalfEven(fm.price_to_earnings_ratio[1], 10)))
    ELSE st

\* Lines 58-60.
RulePB(st, fm) ==
    IF Truthy(fm.price_to_book_ratio) /\ fm.price_to_book_ratio[1] < 150
    THEN Add(st, 1, Reason("P/B",
                           RoundHalfEven(fm.price_to_book_ratio[1], 10)))
    ELSE st

\* Lines 61-63.
RuleDebt(st, fm) ==
    IF Truthy(fm.debt_to_assets) /\ fm.debt_to_assets[1] < 50
    THEN Add(st, 1, Reason("Debt/Assets", fm.debt_to_assets[1]))
    ELSE st

\* Lines 64-66.
RuleCurrent(st, fm) ==
    IF Truthy(fm.current_ratio) /\ fm.current_ratio[1] > 150
    THEN Add(st, 1, Reason("Current ratio", fm.current_ratio[1]))
    ELSE st

\* RuleMos with `score += 3`.
RuleMosThreePoints(st, m) ==
    IF m # None /\ m[1] > 3000
    THEN Add(st, 3, Reason("Margin of safety", RoundHalfEven(m[1], 100)))
    ELSE st

\* Lines 69-71.
RuleMos(st, m) ==
    IF m # None /\ m[1] > 3000
    THEN Add(st, 2, Reason("Margin of safety", RoundHalfEven(m[1], 100)))
    ELSE st

\* Lines 73-75.
RuleRevenue(st, fm) ==
    IF Truthy(fm.revenue_growth) /\ fm.revenue_growth[1] > 5
    THEN Add(st, 1, Reason("Revenue growth", fm.revenue_growth[1]))
    ELSE st

\* Lines 76-78.
RuleEarnings(st, fm) ==
    IF Truthy(fm.earnings_growth) /\ fm.earnings_growth[1] > 5
    THEN Add(st, 1, Reason("Earnings growth", fm.earnings_growth[1]))
    ELSE st

\* MissingData that also skips a market cap that is not > 0.
MissingDataOrUnusableCap(m, l, mc) ==
    m = <<>> \/ l = <<>> \/ mc = None \/ mc[1] <= 0

\* Line 46: the missing-data test (an absent list and an empty list are both
\* false, and both are <<>> here).
MissingData(m, l, mc) == m = <<>> \/ l = <<>> \/ mc = None

\* score_stock after its three fetches (lines 46-85): what it returns or
\* raises, given the fetched values.
score_stock(t, m, l, mc) ==
    IF MissingData(m, l, mc) THEN Return(None)
    ELSE LET fm == m[1]
             li == l[1]
             s0 == [score |-> 0, reasons |-> <<>>]
             s4 == RuleCurrent(RuleDebt(RulePB(RulePE(s0, fm), fm), fm), fm)
             call == compute_margin_of_safety(li, mc)
         IN IF call.exc # "" THEN Raise(call.exc)
            ELSE LET s5 == RuleMos(s4, call.value)
                     s7 == RuleEarnings(RuleRevenue(s5, fm), fm)
                 IN Return(Some([ticker |-> t,
                                 score |-> s7.score,
                                 margin_of_safety |-> call.value,
                                 reasons |-> s7.reasons]))

\* InsertByScore with > for >=: equal scores end up in reverse order.
RECURSIVE InsertByScoreTiesFirst(_, _)
InsertByScoreTiesFirst(sorted, r) ==
    IF sorted = <<>> THEN <<r>>
    ELSE IF Head(sorted).score > r.score
         THEN <<Head(sorted)>> \o InsertByScoreTiesFirst(Tail(sorted), r)
         ELSE <<r>> \o sorted

\* list.sort(key=score, reverse=True) keeps equal keys in their original
\* order: r goes behind every entry whose score is at least its own.
RECURSIVE InsertByScore(_, _)
InsertByScore(sorted, r) ==
    IF sorted = <<>> THEN <<r>>
    ELSE IF Head(sorted).score >= r.score
         THEN <<Head(sorted)>> \o InsertByScore(Tail(sorted), r)
         ELSE <<r>> \o sorted

RECURSIVE SortByScore(_)
SortByScore(rs) ==
    IF rs = <<>> THEN <<>>
    ELSE InsertByScore(SortByScore(SubSeq(rs, 1, Len(rs) - 1)), rs[Len(rs)])

\* Lines 119-121: one report line; mos is None for "N/A", else the percent.
ReportLine(r) ==
    [ticker |-> r.ticker,
     score |-> r.score,
     mos |-> IF r.margin_of_safety # None
             THEN Some(RoundHalfEven(r.margin_of_safety[1], 100))
             ELSE None,
     reasons |-> r.reasons]

(***************************************************************************)
(* What the collaborators of src.tools.api may answer.                     *)
(***************************************************************************)
FM(pe, pb, da, cr, rg, eg) ==
    [price_to_earnings_ratio |-> pe, price_to_book_ratio |-> pb,
     debt_to_assets |-> da, current_ratio |-> cr,
     revenue_growth |-> rg, earnings_growth |-> eg]

LI(eps, bvps, shares) ==
    [earnings_per_share |-> eps, book_value_per_share |-> bvps,
     outstanding_shares |-> shares]

Symbols == {"AAPL", "MSFT"}

\* The screener's runs: two metrics records (scores 2 and 0 before the margin
\* of safety), a line item with a positive and one with a negative eps*bvps.
Metrics == {<<>>,
            <<FM(Some(1000), Some(100), None, None, None, None)>>,
            <<FM(Some(2000), None, Some(0), None, None, None)>>}

LineItems == {<<>>,
              <<LI(Some(2), Some(20), Some(100))>>,
              <<LI(Some(-2), Some(20), Some(100))>>}

MarketCaps == {None, Some(0), Some(-1500), Some(1500), Some(3000)}

\* The scorer alone: every rule absent, zero, triggering (for the three
\* upper-bounded ratios also with a negative value) and at its threshold.
WideMetrics ==
    {<<>>} \cup
    {<<FM(pe, pb, da, cr, rg, eg)>> :
        pe \in {None, Some(0), Some(-500), Some(1000), Some(1500)},
        pb \in {None, Some(0), Some(-100), Some(100), Some(150)},
        da \in {None, Some(0), Some(-20), Some(30), Some(50)},
        cr \in {None, Some(0), Some(200), Some(150)},
        rg \in {None, Some(0), Some(10), Some(5)},
        eg \in {None, Some(0), Some(10), Some(5)}}

WideLineItems ==
    {<<>>} \cup
    {<<LI(Some(2), Some(20), Some(100))>>,
     <<LI(None, Some(20), Some(100))>>, <<LI(Some(0), Some(20), Some(100))>>,
     <<LI(Some(2), None, Some(100))>>, <<LI(Some(2), Some(0), Some(100))>>,
     <<LI(Some(2), Some(20), None)>>, <<LI(Some(2), Some(20), Some(0))>>,
     <<LI(Some(-2), Some(20), Some(100))>>}

WideMarketCaps == {None, Some(0), Some(1500), Some(3000)}

\* The calculator alone.
MosLineItems ==
    {LI(eps, bvps, shares) :
        eps \in {None, Some(0), Some(2), Some(-2), Some(3)},
        bvps \in {None, Some(0), Some(20), Some(-20)},
        shares \in {None, Some(0), Some(100), Some(-100), Some(50)}}

MosMarketCaps == {None, Some(0), Some(1500), Some(-1500), Some(3000)}

RECURSIVE SeqsUpTo(_, _)
SeqsUpTo(S, n) ==
    IF n = 0 THEN {<<>>}
    ELSE LET shorter == SeqsUpTo(S, n - 1)
         IN shorter \cup {Append(q, x) : q \in shorter, x \in S}

Call(fn, t) == [fn |-> fn, ticker |-> t]

(***************************************************************************)
(* main's run: screen_stocks(tickers, end_date), then the report.  The     *)
(* end date is one value handed through unchanged, and is left out.        *)
(***************************************************************************)
Init ==
    /\ tickers \in SeqsUpTo(Symbols, MaxTickers)
    /\ i = 0
    /\ ticker = ""
    /\ pc = "for"
    /\ metrics = <<>>
    /\ line_items = <<>>
    /\ market_cap = None
    /\ mos = None
    /\ result = None
    /\ results = <<>>
    /\ main_results = None
    /\ printed = <<>>
    /\ error = ""
    /\ calls = <<>>
    /\ missing = <<>>

\* Lines 90-91: the loop takes the next ticker and calls score_stock.
ForNext ==
    /\ pc = "for"
    /\ i < Len(tickers)
    /\ i' = i + 1
    /\ ticker' = tickers[i + 1]
    /\ pc' = "get_financial_metrics"
    /\ calls' = Append(calls, Call("score_stock", tickers[i + 1]))
    /\ UNCHANGED <<tickers, metrics, line_items, market_cap, mos, result,
                   results, main_results, printed, error, missing>>

\* Propagate with the failed call tried again.
PropagateRetry(at) == at

\* Where control goes when the call at position `at` raises: score_stock,
\* screen_stocks and main have no try/except, so the exception ends the run.
Propagate(at) == "raised"

\* GetFinancialMetrics with an early `if not metrics: return None`.
GetFinancialMetricsEarlyReturn(answers) ==
    /\ pc = "get_financial_metrics"
    /\ calls' = Append(calls, Call("get_financial_metrics", ticker))
    /\ \/ \E a \in answers :
            /\ metrics' = a
            /\ pc' = IF a = <<>> THEN "score" ELSE "search_line_items"
            /\ error' = error
       \/ /\ metrics' = metrics
          /\ pc' = "raised"
          /\ error' = "FetchError"
    /\ UNCHANGED <<tickers, i, ticker, line_items, market_cap, mos, result,
                   results, main_results, printed, missing>>

\* Lines 31-36.
GetFinancialMetrics(answers) ==
    /\ pc = "get_financial_metrics"
    /\ calls' = Append(calls, Call("get_financial_metrics", ticker))
    /\ \/ \E a \in answers :
            /\ metrics' = a
            /\ pc' = "search_line_items"
            /\ error' = error
       \/ /\ metrics' = metrics
          /\ pc' = Propagate(pc)
          /\ error' = "FetchError"
    /\ UNCHANGED <<tickers, i, ticker, line_items, market_cap, mos, result,
                   results, main_results, printed, missing>>

\* Lines 37-43.
SearchLineItems(answers) ==
    /\ pc = "search_line_items"
    /\ calls' = Append(calls, Call("search_line_items", ticker))
    /\ \/ \E a \in answers :
            /\ line_items' = a
            /\ pc' = "get_market_cap"
            /\ error' = error
       \/ /\ line_items' = line_items
          /\ pc' = Propagate(pc)
          /\ error' = "FetchError"
    /\ UNCHANGED <<tickers, i, ticker, metrics, market_cap, mos, result,
                   results, main_results, printed, missing>>

\* Line 44.
GetMarketCap(answers) ==
    /\ pc = "get_market_cap"
    /\ calls' = Append(calls, Call("get_market_cap", ticker))
    /\ \/ \E a \in answers :
            /\ market_cap' = a
            /\ pc' = "score"
            /\ error' = error
       \/ /\ market_cap' = market_cap
          /\ pc' = Propagate(pc)
          /\ error' = "FetchError"
    /\ UNCHANGED <<tickers, i, ticker, metrics, line_items, mos, result,
                   results, main_results, printed, missing>>

\* Lines 46-85: the rest of score_stock, up to its return or its exception.
Score ==
    /\ pc = "score"
    /\ missing' = Append(missing, \/ metrics = <<>>
                                   \/ line_items = <<>>
                                   \/ market_cap = None)
    /\ LET out == score_stock(ticker, metrics, line_items, market_cap)
       IN IF out.exc # ""
          THEN /\ pc' = Propagate(pc)
               /\ error' = out.exc
               /\ UNCHANGED <<result, mos>>
          ELSE /\ pc' = "return"
               /\ result' = out.value
               /\ mos' = IF out.value = None THEN mos
                         ELSE out.value[1].margin_of_safety
               /\ error' = error
    /\ UNCHANGED <<tickers, i, ticker, metrics, line_items, market_cap,
                   results, main_results, printed, calls>>

\* Lines 91-93: score_stock's frame is gone; a result that is not None is
\* appended.
Collect ==
    /\ pc = "return"
    /\ results' = IF result # None THEN Append(results, result[1]) ELSE results
    /\ metrics' = <<>>
    /\ line_items' = <<>>
    /\ market_cap' = None
    /\ mos' = None
    /\ pc' = "for"
    /\ UNCHANGED <<tickers, i, ticker, result, main_results, printed, error,
                   calls, missing>>

\* Lines 94-95 and 115: after the last ticker, sort in place and return.
SortAndReturn ==
    /\ pc = "for"
    /\ i = Len(tickers)
    /\ results' = SortByScore(results)
    /\ main_results' = Some(results')
    /\ pc' = "print_header"
    /\ UNCHANGED <<tickers, i, ticker, metrics, line_items, market_cap, mos,
                   result, printed, error, calls, missing>>

\* Line 117.
PrintHeader ==
    /\ pc = "print_header"
    /\ printed' = <<[header |-> "Value Screen Results as of"]>>
    /\ pc' = "print_rows"
    /\ UNCHANGED <<tickers, i, ticker, metrics, line_items, market_cap, mos,
                   result, results, main_results, error, calls, missing>>

\* Lines 118-121: one line per result, in the returned order.
PrintRow ==
    /\ pc = "print_rows"
    /\ Len(printed) <= Len(main_results[1])
    /\ printed' = Append(printed, ReportLine(main_results[1][Len(printed)]))
    /\ UNCHANGED <<tickers, i, ticker, pc, metrics, line_items, market_cap,
                   mos, result, results, main_results, error, calls, missing>>

\* The end of main.
Exit ==
    /\ pc = "print_rows"
    /\ Len(printed) > Len(main_results[1])
    /\ pc' = "exit"
    /\ UNCHANGED <<tickers, i, ticker, metrics, line_items, market_cap, mos,
                   result, results, main_results, printed, error, calls,
                   missing>>

Next ==
    \/ ForNext
    \/ GetFinancialMetrics(Metrics)
    \/ SearchLineItems(LineItems)
    \/ GetMarketCap(MarketCaps)
    \/ Score
    \/ Collect
    \/ SortAndReturn
    \/ PrintHeader
    \/ PrintRow
    \/ Exit

Spec == Init /\ [][Next]_vars

(***************************************************************************)
(* score_stock called on its own, over the wide answers.                   *)
(***************************************************************************)
InitScore ==
    /\ ticker \in Symbols
    /\ tickers = <<ticker>>
    /\ i = 1
    /\ pc = "get_financial_metrics"
    /\ metrics = <<>>
    /\ line_items = <<>>
    /\ market_cap = None
    /\ mos = None
    /\ result = None
    /\ results = <<>>
    /\ main_results = None
    /\ printed = <<>>
    /\ error = ""
    /\ calls = <<Call("score_stock", ticker)>>
    /\ missing = <<>>

NextScore ==
    \/ GetFinancialMetrics(WideMetrics)
    \/ SearchLineItems(WideLineItems)
    \/ GetMarketCap(WideMarketCaps)
    \/ Score

SpecScore == InitScore /\ [][NextScore]_vars

(***************************************************************************)
(* compute_margin_of_safety called on its own.                             *)
(***************************************************************************)
InitMos ==
    /\ line_items \in {<<li>> : li \in MosLineItems}
    /\ market_cap \in MosMarketCaps
    /\ pc = "compute_margin_of_safety"
    /\ tickers = <<>>
    /\ i = 0
    /\ ticker = ""
    /\ metrics = <<>>
    /\ mos = None
    /\ result = None
    /\ results = <<>>
    /\ main_results = None
    /\ printed = <<>>
    /\ error = ""
    /\ calls = <<>>
    /\ missing = <<>>

\* Lines 18-27, as one call.
ComputeMos ==
    /\ pc = "compute_margin_of_safety"
    /\ LET out == compute_margin_of_safety(line_items[1], market_cap)
       IN /\ pc' = IF out.exc # "" THEN Propagate(pc) ELSE "return"
          /\ error' = out.exc
          /\ mos' = out.value
    /\ UNCHANGED <<tickers, i, ticker, metrics, line_items, market_cap,
                   result, results, main_results, printed, calls, missing>>

NextMos == ComputeMos

SpecMos == InitMos /\ [][NextMos]_vars

(***************************************************************************)
(* The calculator's contract (SpecMos).                                    *)
(***************************************************************************)
Present(x) == x # None /\ x[1] # 0

\* eps, bvps, shares present and nonzero, market_cap > 0, eps*bvps < 0.
NegativeProductCase(li, mc) ==
    /\ Present(li.earnings_per_share)
    /\ Present(li.book_value_per_share)
    /\ Present(li.outstanding_shares)
    /\ mc # None /\ mc[1] > 0
    /\ li.earnings_per_share[1] * li.book_value_per_share[1] < 0

\* C1: called with eps, bvps, shares present and nonzero, market_cap > 0 and
\* eps*bvps < 0, compute_margin_of_safety returns None and raises nothing.
C1_NegativeProductIsNoValue ==
    (pc # "compute_margin_of_safety"
        /\ NegativeProductCase(line_items[1], market_cap))
    => (pc = "return" /\ error = "" /\ mos = None)

\* g is sqrt(x) to the unit: g*g <= x < (g+1)*(g+1).
IsRoot(g, x) == g * g <= x /\ x < (g + 1) * (g + 1)

\* q is n/d to the unit, for d > 0.
IsQuotient(q, n, d) == q * d <= n /\ n < (q + 1) * d

\* v is (sqrt(22.5*eps*bvps) - price)/price with price = market_cap/shares:
\* the root and the price in hundredths, v in ten-thousandths.
IsMarginOfSafety(v, eps, bvps, shares, mc) ==
    \E g \in 0..5000 :
        /\ IsRoot(g, 225000 * eps * bvps)
        /\ \E price \in 1..10000 :
              /\ IsQuotient(price, mc * 100, shares)
              /\ IsQuotient(v, (g - price) * 10000, price)

\* The reference of the claim: no value when an input is absent or zero, or
\* market_cap <= 0, or the price market_cap/shares is not > 0.
ReferenceIsNone(li, mc) ==
    \/ ~Present(li.earnings_per_share)
    \/ ~Present(li.book_value_per_share)
    \/ ~Present(li.outstanding_shares)
    \/ ~Present(mc)
    \/ mc[1] <= 0
    \/ li.outstanding_shares[1] < 0

\* C2: where eps*bvps is not negative, compute_margin_of_safety returns what
\* the reference gives: None when an input is absent or zero, market_cap <= 0
\* or the price is not > 0, and (sqrt(22.5*eps*bvps) - price)/price otherwise;
\* eps=2, bvps=20, shares=100, market_cap=1500 gives 1.0.
C2_AgreesWithReference ==
    LET li == line_items[1]
        eps == li.earnings_per_share
        bvps == li.book_value_per_share
        shares == li.outstanding_shares
    IN (pc # "compute_margin_of_safety"
           /\ ~(Present(eps) /\ Present(bvps) /\ eps[1] * bvps[1] < 0))
       => /\ pc = "return" /\ error = ""
          /\ mos = None <=> ReferenceIsNone(li, market_cap)
          /\ mos # None =>
                IsMarginOfSafety(mos[1], eps[1], bvps[1], shares[1],
                                 market_cap[1])
          /\ (li = LI(Some(2), Some(20), Some(100)) /\ market_cap = Some(1500))
                => mos = Some(10000)

C2_Witness ==
    /\ pc = "return"
    /\ line_items = <<LI(Some(2), Some(20), Some(100))>>
    /\ market_cap = Some(1500)
    /\ mos = Some(10000)

(***************************************************************************)
(* The scorer's contract (SpecScore).                                      *)
(***************************************************************************)
\* score_stock has returned a result.
Scored == pc = "return" /\ result # None

RuleOrder ==
    <<"P/E", "P/B", "Debt/Assets", "Current ratio", "Margin of safety",
      "Revenue growth", "Earnings growth">>

RuleKinds == {RuleOrder[k] : k \in 1..Len(RuleOrder)}

Rank(kind) == CHOOSE k \in 1..Len(RuleOrder) : RuleOrder[k] = kind

CountKind(reasons, kind) ==
    Cardinality({k \in 1..Len(reasons) : reasons[k].kind = kind})

\* The input of the metric rule `kind`.
RuleInput(kind, fm) ==
    CASE kind = "P/E" -> fm.price_to_earnings_ratio
      [] kind = "P/B" -> fm.price_to_book_ratio
      [] kind = "Debt/Assets" -> fm.debt_to_assets
      [] kind = "Current ratio" -> fm.current_ratio
      [] kind = "Revenue growth" -> fm.revenue_growth
      [] kind = "Earnings growth" -> fm.earnings_growth

\* The comparison of the rule `kind` on the value v (hundredths; the margin
\* of safety in ten-thousandths).
Satisfies(kind, v) ==
    CASE kind = "P/E" -> v < 1500
      [] kind = "P/B" -> v < 150
      [] kind = "Debt/Assets" -> v < 50
      [] kind = "Current ratio" -> v > 150
      [] kind = "Margin of safety" -> v > 3000
      [] kind = "Revenue growth" -> v > 5
      [] kind = "Earnings growth" -> v > 5

RulePoints(kind) == IF kind = "Margin of safety" THEN 2 ELSE 1

\* The rule `kind` triggers: its input is there, nonzero, and satisfies its
\* comparison (the margin-of-safety rule: a value was computed and is > 0.30).
Triggers(kind, fm, m) ==
    IF kind = "Margin of safety"
    THEN m # None /\ Satisfies(kind, m[1])
    ELSE Present(RuleInput(kind, fm)) /\ Satisfies(kind, RuleInput(kind, fm)[1])

\* The sum of f over the seven rules.
SumOverRules(f(_)) ==
    f(RuleOrder[1]) + f(RuleOrder[2]) + f(RuleOrder[3]) + f(RuleOrder[4])
        + f(RuleOrder[5]) + f(RuleOrder[6]) + f(RuleOrder[7])

\* C5: the score of every result of score_stock is an integer from 0 to 8.
C5_ScoreInRange == Scored => result[1].score \in 0..8

C5_Witness == Scored /\ result[1].score = 8

\* C6: the score is the sum of the points of the triggered rules, the reasons
\* hold exactly one entry per triggered rule (+1 each, +2 for the margin of
\* safety, so score = number of reasons, plus 1 with a margin-of-safety
\* reason), and a rule whose input is present, nonzero and satisfies its
\* comparison, a negative ratio included, triggers.
C6_ScoreIsSumOfTriggeredRules ==
    Scored =>
        LET r == result[1]
            fm == metrics[1]
            Trig(kind) == Triggers(kind, fm, r.margin_of_safety)
            Pts(kind) == IF Trig(kind) THEN RulePoints(kind) ELSE 0
        IN /\ \A k \in 1..Len(r.reasons) : r.reasons[k].kind \in RuleKinds
           /\ \A kind \in RuleKinds :
                 CountKind(r.reasons, kind) = IF Trig(kind) THEN 1 ELSE 0
           /\ r.score = SumOverRules(Pts)
           /\ r.score = Len(r.reasons)
                          + CountKind(r.reasons, "Margin of safety")

\* A negative P/E among all seven rules triggering.
C6_Witness ==
    /\ Scored
    /\ metrics[1].price_to_earnings_ratio = Some(-500)
    /\ Len(result[1].reasons) = 7
    /\ result[1].score = 8

\* The four inputs of the margin-of-safety rule are there and nonzero.
MosInputsPresent(li, mc) ==
    /\ Present(li.earnings_per_share)
    /\ Present(li.book_value_per_share)
    /\ Present(li.outstanding_shares)
    /\ Present(mc)

\* C7: a rule whose input is None or zero adds no points and no reason,
\* whatever the other inputs are; for the margin-of-safety rule the inputs
\* are eps, bvps, outstanding shares and market cap.
C7_AbsentOrZeroInputSkipsRule ==
    Scored =>
        LET r == result[1]
            fm == metrics[1]
            li == line_items[1]
            HasInput(kind) ==
                IF kind = "Margin of safety"
                THEN MosInputsPresent(li, market_cap)
                ELSE Present(RuleInput(kind, fm))
            MaxPts(kind) == IF HasInput(kind) THEN RulePoints(kind) ELSE 0
        IN /\ \A kind \in RuleKinds :
                 ~HasInput(kind) => CountKind(r.reasons, kind) = 0
           /\ ~MosInputsPresent(li, market_cap) => r.margin_of_safety = None
           /\ r.score <= SumOverRules(MaxPts)

\* A zero P/E and a zero market cap while every other rule triggers.
C7_Witness ==
    /\ Scored
    /\ metrics[1].price_to_earnings_ratio = Some(0)
    /\ market_cap = Some(0)
    /\ result[1].score = 5
    /\ Len(result[1].reasons) = 5

\* C8: the reasons are a subsequence of the fixed order P/E, P/B,
\* Debt/Assets, Current ratio, Margin of safety, Revenue growth, Earnings
\* growth: no kind twice, and any two in that relative order.
C8_ReasonsInFixedOrder ==
    Scored =>
        LET rs == result[1].reasons
        IN \A a, b \in 1..Len(rs) :
              a < b => Rank(rs[a].kind) < Rank(rs[b].kind)

\* P/E and P/B skipped, the margin of safety between the ratio rules and
\* the growth rules.
C8_Witness ==
    /\ Scored
    /\ [k \in 1..Len(result[1].reasons) |-> result[1].reasons[k].kind]
          = <<"Debt/Assets", "Margin of safety", "Earnings growth">>

(***************************************************************************)
(* The screener's contract (Spec).                                         *)
(***************************************************************************)
TickersOf(rs) == [k \in 1..Len(rs) |-> rs[k].ticker]

ScoresOf(rs) == [k \in 1..Len(rs) |-> rs[k].score]

\* The first n input tickers without those line 46 found to lack data.
RECURSIVE Kept(_)
Kept(n) ==
    IF n = 0 THEN <<>>
    ELSE Kept(n - 1) \o (IF missing[n] THEN <<>> ELSE <<tickers[n]>>)

\* The entries of rs whose score is sc, in the order of rs.
WithScore(rs, sc) == LET Has(r) == r.score = sc IN SelectSeq(rs, Has)

\* The step in which screen_stocks sorts and returns.
Sorting == pc = "for" /\ pc' = "print_header"

\* C3: what screen_stocks returns is ordered by score, non-increasing, and
\* results of equal score keep the relative order of their tickers in the
\* input list.
C3_SortedDescendingAndStable ==
    [][Sorting =>
         LET out == main_results'[1]
         IN /\ \A k \in 1..(Len(out) - 1) : out[k].score >= out[k + 1].score
            /\ TickersOf(results) = Kept(Len(tickers))
            /\ Len(out) = Len(results)
            /\ \A sc \in 0..8 : WithScore(out, sc) = WithScore(results, sc)
      ]_vars

\* Three tickers, none skipped; the second or third scored 4 and moved to the
\* front, the two that scored 2 (AAPL ahead of MSFT in the input) kept their
\* order.
C3_Witness ==
    /\ pc = "print_header"
    /\ tickers = <<"AAPL", "MSFT", "MSFT">>
    /\ TickersOf(main_results[1]) = <<"MSFT", "AAPL", "MSFT">>
    /\ ScoresOf(main_results[1]) = <<4, 2, 2>>

CountTicker(ts, sym) == Cardinality({k \in 1..Len(ts) : ts[k] = sym})

\* C4: score_stock returns None, raising nothing, exactly when the metrics
\* list is empty, the line-items list is empty or the market cap is None; and
\* what screen_stocks returns holds one entry per occurrence of an input
\* ticker that had its data (a score of 0 or a market cap <= 0 included),
\* none for the others.
C4_MissingDataIsSkipped ==
    /\ pc = "return" =>
          /\ error = ""
          /\ result = None <=>
                (metrics = <<>> \/ line_items = <<>> \/ market_cap = None)
          /\ result # None => result[1].ticker = ticker
          /\ TickersOf(results) = Kept(i - 1)
    /\ pc = "for" => TickersOf(results) = Kept(i)
    /\ main_results # None =>
          /\ Len(main_results[1]) = Len(Kept(Len(tickers)))
          /\ \A sym \in Symbols :
                CountTicker(TickersOf(main_results[1]), sym)
                    = CountTicker(Kept(Len(tickers)), sym)

\* The second of three tickers skipped, and a result of score 0 without
\* reasons returned.
C4_Witness ==
    /\ pc = "exit"
    /\ missing = <<FALSE, TRUE, FALSE>>
    /\ Len(main_results[1]) = 2
    /\ \E k \in 1..2 : /\ main_results[1][k].score = 0
                       /\ main_results[1][k].reasons = <<>>

\* The calls one ticker takes, in order.
Block(t) ==
    <<Call("score_stock", t), Call("get_financial_metrics", t),
      Call("search_line_items", t), Call("get_market_cap", t)>>

\* The calls the first n tickers take.
RECURSIVE Blocks(_)
Blocks(n) == IF n = 0 THEN <<>> ELSE Blocks(n - 1) \o Block(tickers[n])

\* C9: when a collaborator call fails, nothing catches it: the run ends with
\* that error, no call follows for this or a later ticker, none is repeated,
\* and nothing is returned or printed, whatever was scored before.
C9_FetchFailureEndsTheBatch ==
    error = "FetchError" =>
        /\ pc = "raised"
        /\ ~ENABLED Next
        /\ main_results = None
        /\ printed = <<>>
        /\ Len(missing) = i - 1
        /\ \E n \in 2..4 :
              calls = Blocks(i - 1) \o SubSeq(Block(tickers[i]), 1, n)

\* The second ticker's line-items fetch fails after the first was scored.
C9_Witness ==
    /\ error = "FetchError"
    /\ i = 2
    /\ Len(tickers) = 3
    /\ results # <<>>
    /\ calls[Len(calls)].fn = "search_line_items"

\* How many calls of the current ticker's block have been issued.
Issued ==
    CASE pc = "get_financial_metrics" -> 1
      [] pc = "search_line_items" -> 2
      [] pc = "get_market_cap" -> 3
      [] OTHER -> 4

\* C10: without a fetch failure the tickers are taken one after the other in
\* input order, score_stock once per entry, each with its three fetches once
\* and in the order metrics, line items, market cap, all before line 46's
\* test; and the sort comes after the last ticker.
C10_SequentialInInputOrder ==
    error # "FetchError" =>
        /\ i \in 0..Len(tickers)
        /\ calls = IF i = 0 THEN <<>>
                   ELSE Blocks(i - 1) \o SubSeq(Block(tickers[i]), 1, Issued)
        /\ Len(missing) = IF Issued < 4 \/ pc = "score" THEN i - 1 ELSE i
        /\ main_results # None =>
              i = Len(tickers) /\ Len(missing) = Len(tickers)

\* The second ticker's metrics came back empty, and its line items and its
\* market cap have been fetched all the same.
C10_Witness ==
    /\ pc = "score"
    /\ i = 2
    /\ metrics = <<>>
    /\ calls = Blocks(2)
====
